---- MODULE Spec2Model ----
(***************************************************************************)
(* InfoBiGAN (infobigan_torch/model.py): the orchestrator that owns the    *)
(* discriminator, generator, encoder and regulariser, the shapes its       *)
(* constructor derives for them, the whole-model operations, and the       *)
(* assembly of the flat latent vector from a structured latent code.       *)
(*                                                                         *)
(* Tensors are modelled by what the claims need of them: a flat latent     *)
(* vector is the sequence of its coordinates along dim 1 (one batch row),  *)
(* a feature map is its depth.  A parameter set is a version number.       *)
(***************************************************************************)
EXTENDS Integers, Sequences, FiniteSets, TLC

VARIABLES
    cfg,        \* the arguments given to InfoBiGAN.__init__
    pc,         \* "new" before __init__ runs, then "built" or "failed"
    net,        \* the InfoBiGAN object
    mode_call,  \* the latest of __init__ / train / eval to complete
    load_raised,\* what the latest whole-model call raised
    zc,         \* the latent input at hand (encoder output or sampled code)
    g_res,      \* what RegularisedGenerator.forward made of zc
    d_res,      \* what DualDiscriminator.forward made of zc
    enc_run     \* the evaluations of RegularisedEncoder.forward behind zc

vars == <<cfg, pc, net, mode_call, load_raised, zc, g_res, d_res, enc_run>>

----------------------------------------------------------------------------
(* Bounds of the model. *)

MaxConv == 2      \* n_conv = len(channels) - 1 ranges over 1..MaxConv
MaxNoise == 2     \* latent_dim (noise width) ranges over 1..MaxNoise
MaxGauss == 1     \* reg_gaussian ranges over 0..MaxGauss
MaxLevelSum == 3  \* sum(reg_categorical) ranges over 0..MaxLevelSum
NSets == 2        \* saved parameter sets that fit a sub-network
NMasks == 2       \* dropout masks a training-mode pass can draw

----------------------------------------------------------------------------
(* Helpers on sequences. *)

RECURSIVE sum(_)
sum(s) == IF s = <<>> THEN 0 ELSE Head(s) + sum(Tail(s))

RECURSIVE cat(_)
\* torch.cat(list, 1) on one batch row
cat(l) == IF l = <<>> THEN <<>> ELSE Head(l) \o cat(Tail(l))

\* s[::-1]
reversed(s) == [i \in 1..Len(s) |-> s[Len(s) + 1 - i]]

SeqsUpTo(S, n) == UNION {[1..k -> S] : k \in 0..n}

----------------------------------------------------------------------------
(* Configuration.  A scalar-or-sequence hyperparameter is a record         *)
(* [seq |-> BOOLEAN, val |-> value or sequence].                           *)

Scalar(v) == [seq |-> FALSE, val |-> v]
Tuple(s) == [seq |-> TRUE, val |-> s]

\* the scalar, and the sequences one short of, exactly, and one beyond n
HyperChoices(n) ==
    {Scalar(1)} \cup {Tuple([i \in 1..k |-> i]) : k \in (n - 1)..(n + 1)}

LatentChoices ==
    [latent_dim : 1..MaxNoise,
     reg_categorical : {s \in SeqsUpTo(1..MaxLevelSum, MaxLevelSum) : sum(s) <= MaxLevelSum},
     reg_gaussian : 0..MaxGauss]

Config(n, k, s, p, b, l) ==
    [channels |-> [i \in 1..(n + 1) |-> i],
     kernel_size |-> k, stride |-> s, padding |-> p, bias |-> b,
     manifest_dim |-> 1,
     latent_dim |-> l.latent_dim,
     reg_categorical |-> l.reg_categorical,
     reg_gaussian |-> l.reg_gaussian]

\* scalar hyperparameters, one convolutional layer
LatentConfig(l) == Config(1, Scalar(1), Scalar(1), Scalar(1), Scalar(1), l)

\* one categorical variable of one level, as a scaled-down default
SmallChoices == {l \in LatentChoices : l.latent_dim = 1 /\ l.reg_categorical = <<1>>}

----------------------------------------------------------------------------
(* utils._listify(item, length): a sequence must already have the length,  *)
(* a scalar is broadcast.                                                   *)

listify(item, length) ==
    IF item.seq
    THEN IF Len(item.val) = length
         THEN [raised |-> "none", val |-> item.val]
         ELSE [raised |-> "InvalidConfigError", val |-> <<>>]
    ELSE [raised |-> "none", val |-> [i \in 1..length |-> item.val]]

----------------------------------------------------------------------------
(* The sub-networks as constructed.  An nn.Module starts in training mode, *)
(* on the cpu, with freshly initialised parameters and no gradients.       *)

Module(fields) == fields @@ [training |-> TRUE, device |-> "cpu", params |-> 0, grad |-> FALSE]

\* the per-layer arguments of a convolutional stack
Layers(kernel_size, stride, padding, bias) == [kernel_size |-> kernel_size, stride |-> stride, padding |-> padding, bias |-> bias]

\* kernel_size=1, stride=1, padding=0, bias=True
Pointwise == Layers(<<1>>, <<1>>, <<0>>, <<1>>)

\* conv.DCNetwork(...): the arguments it is constructed with; dropout is in
\* tenths
DCNetwork(channels, fc, layers, in_dim, out_dim, dropout) ==
    [channels |-> channels, fc |-> fc, layers |-> layers, in_dim |-> in_dim,
     out_dim |-> out_dim, dropout |-> dropout]

\* nn.Conv2d(in_channels, out_channels, kernel_size=1)
Conv2d(in_channels, out_channels) ==
    [in_channels |-> in_channels, out_channels |-> out_channels]

DualDiscriminator(manifest_dim, latent_dim, channels, layers) ==
    Module([x_discriminator |->
                DCNetwork(channels, <<>>, layers, manifest_dim,
                          latent_dim * 2, 3),
            z_discriminator |->
                DCNetwork(<<latent_dim>>, <<latent_dim * 2, latent_dim * 2>>,
                          Pointwise, 1, latent_dim * 2, 3),
            zx_discriminator |->
                DCNetwork(<<latent_dim * 4>>,
                          <<latent_dim * 4, latent_dim * 4>>,
                          Pointwise, 1, 1, 3)])

\* self.code: 'z', 'categorical', and 'gaussian' only if reg_gaussian > 0
EncoderCode(hidden_dim, reg_categorical, reg_gaussian, latent_noise_dim) ==
    LET z == Conv2d(hidden_dim, latent_noise_dim)
        categorical == [i \in 1..Len(reg_categorical) |->
                            Conv2d(hidden_dim, reg_categorical[i])]
    IN  IF reg_gaussian > 0
        THEN [z |-> z, categorical |-> categorical,
              gaussian |-> Conv2d(hidden_dim, reg_gaussian)]
        ELSE [z |-> z, categorical |-> categorical]

RegularisedEncoder_swapped(channels, layers, manifest_dim, hidden_dim, reg_categorical, reg_gaussian, latent_noise_dim) ==
    Module([reg_gaussian |-> reg_gaussian,
            reg_categorical |-> Len(reg_categorical),
            conv |-> DCNetwork(channels, <<>>, layers, manifest_dim,
                               hidden_dim, 3),
            code |-> EncoderCode(hidden_dim, reversed(reg_categorical),
                                 reg_gaussian, latent_noise_dim)])

RegularisedEncoder(channels, layers, manifest_dim, hidden_dim, reg_categorical, reg_gaussian, latent_noise_dim) ==
    Module([reg_gaussian |-> reg_gaussian,
            reg_categorical |-> Len(reg_categorical),
            conv |-> DCNetwork(channels, <<>>, layers, manifest_dim,
                               hidden_dim, 3),
            code |-> EncoderCode(hidden_dim, reg_categorical, reg_gaussian,
                                 latent_noise_dim)])

\* RegularisedGenerator(**kwargs): a DCTranspose built from the arguments
RegularisedGenerator(channels, layers, latent_dim, target_dim) ==
    Module([channels |-> channels, layers |-> layers,
            latent_dim |-> latent_dim, target_dim |-> target_dim,
            batch_norm |-> FALSE])

QStack(reg_categorical, reg_gaussian, hidden_dim) ==
    Module([reg_gaussian |-> reg_gaussian,
            reg_categorical |-> Len(reg_categorical),
            hidden_dim |-> hidden_dim,
            q_input |-> DCNetwork(hidden_dim, <<>>, Pointwise, 1,
                                  hidden_dim, 0),
            q_categorical |-> [i \in 1..Len(reg_categorical) |->
                                   Conv2d(hidden_dim, reg_categorical[i])],
            q_gaussian |-> IF reg_gaussian > 0
                           THEN <<Conv2d(hidden_dim, reg_gaussian),
                                  Conv2d(hidden_dim, reg_gaussian)>>
                           ELSE <<>>])

----------------------------------------------------------------------------
(* InfoBiGAN.__init__ *)

Subnetworks == {"discriminator", "encoder", "generator", "regulariser"}

\* no InfoBiGAN object
NoNet == [raised |-> "none", allocated |-> {}]

\* the object once the four _listify calls have passed
Assemble(c, kernel_size, padding, stride, bias, total, q_latent) ==
    [raised |-> "none",
     allocated |-> Subnetworks,
     latent_dim |-> total,
     latent_noise |-> c.latent_dim,
     manifest_dim |-> c.manifest_dim,
     reg_gaussian |-> c.reg_gaussian,
     reg_categorical |-> c.reg_categorical,
     discriminator |->
         DualDiscriminator(c.manifest_dim, total, c.channels,
                           Layers(kernel_size, stride, padding, bias)),
     encoder |->
         RegularisedEncoder(c.channels,
                            Layers(kernel_size, stride, padding, bias),
                            c.manifest_dim, c.latent_dim, c.reg_categorical,
                            c.reg_gaussian, c.latent_dim),
     generator |->
         RegularisedGenerator(reversed(c.channels),
                              Layers(reversed(kernel_size), reversed(stride),
                                     reversed(padding), reversed(bias)),
                              total, c.manifest_dim),
     regulariser |->
         QStack(c.reg_categorical, c.reg_gaussian, q_latent * 2)]

\* the discriminator is built from the raw arguments before they are checked
InfoBiGAN_init_late(c) ==
    LET n_conv == Len(c.channels) - 1
        kernel_size == listify(c.kernel_size, n_conv)
        padding == listify(c.padding, n_conv)
        stride == listify(c.stride, n_conv)
        bias == listify(c.bias, n_conv)
        total == c.latent_dim + sum(c.reg_categorical) + c.reg_gaussian
    IN  IF \E r \in {kernel_size, padding, stride, bias} : r.raised # "none"
        THEN [raised |-> "InvalidConfigError",
              allocated |-> {"discriminator"}]
        ELSE Assemble(c, kernel_size.val, padding.val, stride.val, bias.val,
                      total, total)

\* the discriminator is given the noise width alone
InfoBiGAN_init_noise_d(c) ==
    LET n_conv == Len(c.channels) - 1
        kernel_size == listify(c.kernel_size, n_conv)
        padding == listify(c.padding, n_conv)
        stride == listify(c.stride, n_conv)
        bias == listify(c.bias, n_conv)
        total == c.latent_dim + sum(c.reg_categorical) + c.reg_gaussian
        built == Assemble(c, kernel_size.val, padding.val, stride.val,
                          bias.val, total, total)
    IN  IF \E r \in {kernel_size, padding, stride, bias} : r.raised # "none"
        THEN [raised |-> "InvalidConfigError", allocated |-> {}]
        ELSE [built EXCEPT !.discriminator =
                  DualDiscriminator(c.manifest_dim, c.latent_dim, c.channels,
                      Layers(kernel_size.val, stride.val, padding.val,
                             bias.val))]

\* the regulariser is given twice the noise width
InfoBiGAN_init_noise_q(c) ==
    LET n_conv == Len(c.channels) - 1
        kernel_size == listify(c.kernel_size, n_conv)
        padding == listify(c.padding, n_conv)
        stride == listify(c.stride, n_conv)
        bias == listify(c.bias, n_conv)
        total == c.latent_dim + sum(c.reg_categorical) + c.reg_gaussian
    IN  IF \E r \in {kernel_size, padding, stride, bias} : r.raised # "none"
        THEN [raised |-> "InvalidConfigError", allocated |-> {}]
        ELSE Assemble(c, kernel_size.val, padding.val, stride.val, bias.val,
                      total, c.latent_dim)

InfoBiGAN_init(c) ==
    LET n_conv == Len(c.channels) - 1
        kernel_size == listify(c.kernel_size, n_conv)
        padding == listify(c.padding, n_conv)
        stride == listify(c.stride, n_conv)
        bias == listify(c.bias, n_conv)
        total == c.latent_dim + sum(c.reg_categorical) + c.reg_gaussian
    IN  IF \E r \in {kernel_size, padding, stride, bias} : r.raised # "none"
        THEN [raised |-> "InvalidConfigError", allocated |-> {}]
        ELSE Assemble(c, kernel_size.val, padding.val, stride.val, bias.val,
                      total, total)

----------------------------------------------------------------------------
(* The whole-model operations of InfoBiGAN. *)

InfoBiGAN_train_skip(n) == [n EXCEPT !.discriminator.training = TRUE, !.generator.training = TRUE, !.regulariser.training = TRUE]

InfoBiGAN_train(n) ==
    [n EXCEPT !.discriminator.training = TRUE,
              !.generator.training = TRUE,
              !.encoder.training = TRUE,
              !.regulariser.training = TRUE]

InfoBiGAN_eval_skip(n) == [n EXCEPT !.discriminator.training = FALSE, !.generator.training = FALSE, !.regulariser.training = FALSE]

InfoBiGAN_eval(n) ==
    [n EXCEPT !.discriminator.training = FALSE,
              !.generator.training = FALSE,
              !.encoder.training = FALSE,
              !.regulariser.training = FALSE]

InfoBiGAN_cuda(n) ==
    [n EXCEPT !.discriminator.device = "cuda",
              !.generator.device = "cuda",
              !.encoder.device = "cuda",
              !.regulariser.device = "cuda"]

InfoBiGAN_zero_grad(n) ==
    [n EXCEPT !.discriminator.grad = FALSE,
              !.generator.grad = FALSE,
              !.encoder.grad = FALSE,
              !.regulariser.grad = FALSE]

\* a saved parameter set: one that fits the sub-network it is offered to
\* (id 1..NSets), or one whose shapes do not
StateDicts == {[fits |-> FALSE, id |-> 0]} \cup [fits : {TRUE}, id : 1..NSets]

\* nn.Module.load_state_dict(params): a set that does not fit raises and the
\* module keeps the parameters it had
Module_load_state_dict(m, params) ==
    IF params.fits
    THEN [raised |-> "none", module |-> [m EXCEPT !.params = params.id]]
    ELSE [raised |-> "RuntimeError", module |-> m]

\* encoder, generator, discriminator, regulariser, in this order; the first
\* load to raise ends the call
InfoBiGAN_load_state_dict(n, params_g, params_e, params_d, params_q) ==
    LET e == Module_load_state_dict(n.encoder, params_e)
        n1 == [n EXCEPT !.encoder = e.module]
        g == Module_load_state_dict(n.generator, params_g)
        n2 == [n1 EXCEPT !.generator = g.module]
        d == Module_load_state_dict(n.discriminator, params_d)
        n3 == [n2 EXCEPT !.discriminator = d.module]
        q == Module_load_state_dict(n.regulariser, params_q)
        n4 == [n3 EXCEPT !.regulariser = q.module]
    IN  IF e.raised # "none" THEN [raised |-> e.raised, net |-> n1]
        ELSE IF g.raised # "none" THEN [raised |-> g.raised, net |-> n2]
        ELSE IF d.raised # "none" THEN [raised |-> d.raised, net |-> n3]
        ELSE [raised |-> q.raised, net |-> n4]

----------------------------------------------------------------------------
(* Forward passes. *)

\* manifest-space inputs
Manifest == {0, 1}

\* the dropout masks a DCNetwork pass can draw: mask 0 is "nothing dropped",
\* which is what a pass in evaluation mode, or without dropout, applies
DropoutMasks(training, dropout) ==
    IF training /\ dropout > 0 THEN 1..NMasks ELSE {0}

\* the depth of the feature map a DCNetwork returns
DCNetwork_depth(n) == n.out_dim

\* coordinate i of head h, as a function of the weights w, the input x and
\* the dropout mask m of the pass (an uninterpreted term, coded as a number)
Unit(w, x, m, h, i) == ((w * 10 + x) * 10 + m) * 100 + h * 10 + i

RegularisedEncoder_forward(enc, x, m) ==
    LET head(h, conv) == [i \in 1..conv.out_channels |-> Unit(enc.params, x, m, h, i)]
        categorical == [i \in 1..enc.reg_categorical |->
                            head(1 + i, enc.code.categorical[i])]
        z == head(0, enc.code.z)
    IN  IF enc.reg_gaussian > 0
        THEN [c |-> [categorical |-> categorical,
                     gaussian |-> head(1, enc.code.gaussian)],
              z |-> z]
        ELSE [c |-> [categorical |-> categorical], z |-> z]

\* a latent input: a tuple (c, z) or a flat tensor t
Structured(src, c, z) == [src |-> src, tuple |-> TRUE, c |-> c, z |-> z, t |-> <<>>]
Flat(src, t) == [src |-> src, tuple |-> FALSE, c |-> [categorical |-> <<>>], z |-> <<>>, t |-> t]
NoInput == Flat("none", <<>>)

Idle == [done |-> FALSE, raised |-> "none", flat |-> <<>>]
IdleD == [done |-> FALSE, raised |-> "none", flat |-> <<>>, zx_depth |-> 0, zx_in |-> 0, out |-> <<0, 0>>]

\* zc[0]['gaussian'] of a dict without the key raises KeyError
Flatten_categorical_first(i) ==
    IF ~i.tuple THEN [raised |-> "none", flat |-> i.t]
    ELSE IF "gaussian" \notin DOMAIN i.c
    THEN [raised |-> "KeyError", flat |-> <<>>]
    ELSE [raised |-> "none", flat |-> cat(<<i.z>> \o i.c.categorical \o <<i.c.gaussian>>)]

Flatten_reversed(i) ==
    IF ~i.tuple THEN [raised |-> "none", flat |-> i.t]
    ELSE IF "gaussian" \notin DOMAIN i.c
    THEN [raised |-> "KeyError", flat |-> <<>>]
    ELSE [raised |-> "none", flat |-> cat(<<i.z, i.c.gaussian>> \o reversed(i.c.categorical))]

\* torch.cat([zc[1], zc[0]['gaussian'], *zc[0]['categorical']], 1)
GeneratorFlatten(i) ==
    IF ~i.tuple THEN [raised |-> "none", flat |-> i.t]
    ELSE IF "gaussian" \notin DOMAIN i.c
    THEN [raised |-> "KeyError", flat |-> <<>>]
    ELSE [raised |-> "none", flat |-> cat(<<i.z, i.c.gaussian>> \o i.c.categorical)]

\* torch.cat([z[1], z[0]['gaussian'], *z[0]['categorical']], 1)
DiscriminatorFlatten(i) ==
    IF ~i.tuple THEN [raised |-> "none", flat |-> i.t]
    ELSE IF "gaussian" \notin DOMAIN i.c
    THEN [raised |-> "KeyError", flat |-> <<>>]
    ELSE [raised |-> "none", flat |-> cat(<<i.z, i.c.gaussian>> \o i.c.categorical)]

RegularisedGenerator_forward(gen, i) ==
    LET f == GeneratorFlatten(i)
    IN  [done |-> TRUE, raised |-> f.raised, flat |-> f.flat]

\* returns (zx, x): out holds the widths of the two
DualDiscriminator_forward(disc, i) ==
    LET f == DiscriminatorFlatten(i)
        z_depth == DCNetwork_depth(disc.z_discriminator)
        x_depth == DCNetwork_depth(disc.x_discriminator)
    IN  IF f.raised # "none"
        THEN [IdleD EXCEPT !.done = TRUE, !.raised = f.raised]
        ELSE [done |-> TRUE, raised |-> "none", flat |-> f.flat,
              zx_depth |-> z_depth + x_depth,
              zx_in |-> disc.zx_discriminator.channels[1],
              out |-> <<DCNetwork_depth(disc.zx_discriminator), x_depth>>]

\* what a sampler of latent codes hands over for an InfoBiGAN n: noise and
\* gaussian coordinates from {0, 1}, one one-hot vector per categorical
\* variable
OneHot(k) == {[i \in 1..k |-> IF i = j THEN 1 ELSE 0] : j \in 1..k}

SampledCodes(n) ==
    LET levels == n.reg_categorical
        hots == UNION {OneHot(levels[k]) : k \in 1..Len(levels)}
    IN  {[c |-> [categorical |-> l, gaussian |-> g], z |-> z] :
            z \in [1..n.latent_noise -> {0, 1}],
            g \in [1..n.reg_gaussian -> {0, 1}],
            l \in {l \in [1..Len(levels) -> hots] :
                      \A k \in 1..Len(levels) : l[k] \in OneHot(levels[k])}}

----------------------------------------------------------------------------
(* Actions. *)

\* no object yet, nothing evaluated
Fresh ==
    /\ pc = "new"
    /\ net = NoNet
    /\ mode_call = "none"
    /\ load_raised = "none"
    /\ zc = NoInput
    /\ g_res = Idle
    /\ d_res = IdleD
    /\ enc_run = <<>>

\* InfoBiGAN(**cfg)
Construct ==
    /\ pc = "new"
    /\ LET n == InfoBiGAN_init(cfg)
       IN  /\ net' = n
           /\ pc' = IF n.raised = "none" THEN "built" ELSE "failed"
           /\ mode_call' = IF n.raised = "none" THEN "__init__" ELSE "none"
    /\ UNCHANGED <<cfg, load_raised, zc, g_res, d_res, enc_run>>

Train ==
    /\ pc = "built"
    /\ net' = InfoBiGAN_train(net)
    /\ mode_call' = "train"
    /\ load_raised' = "none"
    /\ UNCHANGED <<cfg, pc, zc, g_res, d_res, enc_run>>

Eval ==
    /\ pc = "built"
    /\ net' = InfoBiGAN_eval(net)
    /\ mode_call' = "eval"
    /\ load_raised' = "none"
    /\ UNCHANGED <<cfg, pc, zc, g_res, d_res, enc_run>>

Cuda ==
    /\ pc = "built"
    /\ net' = InfoBiGAN_cuda(net)
    /\ load_raised' = "none"
    /\ UNCHANGED <<cfg, pc, mode_call, zc, g_res, d_res, enc_run>>

ZeroGrad ==
    /\ pc = "built"
    /\ net' = InfoBiGAN_zero_grad(net)
    /\ load_raised' = "none"
    /\ UNCHANGED <<cfg, pc, mode_call, zc, g_res, d_res, enc_run>>

\* a backward pass of the training loop leaves gradients on the sub-networks
Backward ==
    /\ pc = "built"
    /\ net' = [net EXCEPT !.discriminator.grad = TRUE,
                          !.generator.grad = TRUE,
                          !.encoder.grad = TRUE,
                          !.regulariser.grad = TRUE]
    /\ UNCHANGED <<cfg, pc, mode_call, load_raised, zc, g_res, d_res, enc_run>>

LoadStateDict ==
    /\ pc = "built"
    /\ \E params_g \in StateDicts, params_e \in StateDicts,
          params_d \in StateDicts, params_q \in StateDicts :
          LET r == InfoBiGAN_load_state_dict(net, params_g, params_e,
                                             params_d, params_q)
          IN  /\ net' = r.net
              /\ load_raised' = r.raised
    /\ UNCHANGED <<cfg, pc, mode_call, zc, g_res, d_res, enc_run>>

\* a sampler hands over a latent code, structured or already flat
Sample ==
    /\ pc = "built"
    /\ \E s \in SampledCodes(net), tuple \in BOOLEAN :
          zc' = IF tuple
                THEN Structured("sampler", s.c, s.z)
                ELSE Flat("sampler",
                          cat(<<s.z, s.c.gaussian>> \o s.c.categorical))
    /\ g_res' = Idle
    /\ d_res' = IdleD
    /\ enc_run' = <<>>
    /\ UNCHANGED <<cfg, pc, net, mode_call, load_raised>>

\* one evaluation of the encoder on x: what it returned, and under what
EncoderRun(n, x, m, call) == [x |-> x, w |-> n.encoder.params, call |-> call, out |-> RegularisedEncoder_forward(n.encoder, x, m)]

\* c, z = encoder(x)
EncoderForward ==
    /\ pc = "built"
    /\ \E x \in Manifest,
          m \in DropoutMasks(net.encoder.training, net.encoder.conv.dropout) :
          LET run == EncoderRun(net, x, m, mode_call)
          IN  /\ zc' = Structured("encoder", run.out.c, run.out.z)
              /\ enc_run' = <<run>>
    /\ g_res' = Idle
    /\ d_res' = IdleD
    /\ UNCHANGED <<cfg, pc, net, mode_call, load_raised>>

\* encoder(x) once more, on the input that gave zc
EncoderRepeat ==
    /\ pc = "built"
    /\ Len(enc_run) = 1
    /\ \E m \in DropoutMasks(net.encoder.training, net.encoder.conv.dropout) :
          enc_run' = <<enc_run[1], EncoderRun(net, enc_run[1].x, m, mode_call)>>
    /\ UNCHANGED <<cfg, pc, net, mode_call, load_raised, zc, g_res, d_res>>

\* generator(zc)
GeneratorForward ==
    /\ pc = "built"
    /\ zc.src # "none"
    /\ ~g_res.done
    /\ g_res' = RegularisedGenerator_forward(net.generator, zc)
    /\ UNCHANGED <<cfg, pc, net, mode_call, load_raised, zc, d_res, enc_run>>

\* discriminator(zc, x)
DiscriminatorForward ==
    /\ pc = "built"
    /\ zc.src # "none"
    /\ ~d_res.done
    /\ d_res' = DualDiscriminator_forward(net.discriminator, zc)
    /\ UNCHANGED <<cfg, pc, net, mode_call, load_raised, zc, g_res, enc_run>>

----------------------------------------------------------------------------
(* Specifications. *)

\* construction, over every shape of the arguments
Init ==
    /\ \E n \in 1..MaxConv :
          \E k \in HyperChoices(n), s \in HyperChoices(n),
             p \in HyperChoices(n), b \in HyperChoices(n), l \in LatentChoices :
              cfg = Config(n, k, s, p, b, l)
    /\ Fresh
Next == Construct
Spec == Init /\ [][Next]_vars

\* the forward passes, over every latent layout
InitF ==
    /\ \E l \in LatentChoices : cfg = LatentConfig(l)
    /\ Fresh
NextF ==
    \/ Construct
    \/ Sample
    \/ EncoderForward
    \/ GeneratorForward
    \/ DiscriminatorForward
SpecF == InitF /\ [][NextF]_vars

\* the whole-model operations
InitL ==
    /\ \E l \in SmallChoices : cfg = LatentConfig(l)
    /\ Fresh
NextL ==
    \/ Construct
    \/ Train
    \/ Eval
    \/ Cuda
    \/ ZeroGrad
    \/ Backward
    \/ LoadStateDict
SpecL == InitL /\ [][NextL]_vars

\* the encoder under the orchestrator's mode switches
InitE ==
    /\ \E l \in SmallChoices : cfg = LatentConfig(l)
    /\ Fresh
NextE ==
    \/ Construct
    \/ Train
    \/ Eval
    \/ EncoderForward
    \/ EncoderRepeat
SpecE == InitE /\ [][NextE]_vars

----------------------------------------------------------------------------
(* Claims. *)

\* noise + categorical levels + gaussian, from the arguments
TotalOf(c) == c.latent_dim + sum(c.reg_categorical) + c.reg_gaussian

BothDone == g_res.done /\ d_res.done

\* where component k of the categorical list starts in the flat vector
CatOffset(i, k) == Len(i.z) + Len(i.c.gaussian) + sum([j \in 1..(k - 1) |-> Len(i.c.categorical[j])])

\* C2: the generator and the discriminator flatten a structured code to the
\* same vector: the noise coordinates first, then the gaussian ones, then
\* each categorical vector in list order.
C2_SameCanonicalOrder ==
    BothDone =>
        /\ g_res.raised = d_res.raised
        /\ g_res.flat = d_res.flat
        /\ (zc.tuple /\ "gaussian" \in DOMAIN zc.c) =>
              /\ g_res.raised = "none"
              /\ Len(g_res.flat) = CatOffset(zc, Len(zc.c.categorical) + 1)
              /\ \A j \in 1..Len(zc.z) : g_res.flat[j] = zc.z[j]
              /\ \A j \in 1..Len(zc.c.gaussian) :
                    g_res.flat[Len(zc.z) + j] = zc.c.gaussian[j]
              /\ \A k \in 1..Len(zc.c.categorical) :
                    \A j \in 1..Len(zc.c.categorical[k]) :
                        g_res.flat[CatOffset(zc, k) + j] = zc.c.categorical[k][j]

C2_Witness ==
    /\ BothDone
    /\ zc.tuple
    /\ "gaussian" \in DOMAIN zc.c
    /\ Len(zc.c.gaussian) > 0
    /\ Len(zc.c.categorical) = 2
    /\ zc.c.categorical[1] # zc.c.categorical[2]
    /\ g_res.raised = "none"

\* a parameter set offered to a sub-network did not fit, and the call raised
LoadFailed == load_raised = "RuntimeError"

ParamsOf(n) == <<n.generator.params, n.encoder.params, n.discriminator.params, n.regulariser.params>>

\* C3: a load_state_dict call that fails leaves the parameters of all four
\* sub-networks as they were before the call.
C3_NoPartialLoad == [][LoadFailed' => ParamsOf(net') = ParamsOf(net)]_vars

\* C4: after any sequence of train / eval / cuda / zero_grad calls the four
\* sub-networks are in the same mode and on the same device.
C4_UniformModeAndDevice ==
    pc = "built" =>
        /\ \A a, b \in Subnetworks :
              /\ net[a].training = net[b].training
              /\ net[a].device = net[b].device

C4_Witness ==
    /\ pc = "built"
    /\ mode_call = "eval"
    /\ ~net.regulariser.training
    /\ net.regulariser.device = "cuda"
    /\ net.encoder.device = "cuda"

\* some sequence-valued argument is not len(channels) - 1 long
WrongLength(c) == \E h \in {c.kernel_size, c.stride, c.padding, c.bias} : h.seq /\ Len(h.val) # Len(c.channels) - 1

RECURSIVE Split(_, _)
\* the flat vector t cut into consecutive pieces of the given widths
Split(t, widths) ==
    IF widths = <<>> THEN <<>>
    ELSE <<SubSeq(t, 1, Head(widths))>> \o Split(SubSeq(t, Head(widths) + 1, Len(t)), Tail(widths))

\* the widths the orchestrator was configured with, in the canonical order
Widths(n) == <<n.latent_noise, n.reg_gaussian>> \o n.reg_categorical

\* C6: flattening a structured code and splitting the flat vector by the
\* widths (latent_noise_dim, reg_gaussian, reg_categorical[0], ...) gives
\* back the noise, the gaussian and each categorical component.
C6_RoundTrip ==
    (zc.tuple /\ "gaussian" \in DOMAIN zc.c) =>
        /\ g_res.done =>
              /\ g_res.raised = "none"
              /\ Split(g_res.flat, Widths(net)) = <<zc.z, zc.c.gaussian>> \o zc.c.categorical
        /\ d_res.done =>
              /\ d_res.raised = "none"
              /\ Split(d_res.flat, Widths(net)) = <<zc.z, zc.c.gaussian>> \o zc.c.categorical

C6_Witness ==
    /\ g_res.done
    /\ d_res.done
    /\ zc.src = "sampler"
    /\ zc.tuple
    /\ net.reg_categorical = <<1, 2>>
    /\ net.reg_gaussian > 0
    /\ zc.z # zc.c.gaussian
    /\ Len(g_res.flat) = net.latent_dim

\* C7: the encoder's output has a noise component of width latent_dim, one
\* categorical entry per configured variable with that variable's level
\* count, in the configured order, a gaussian component of width
\* reg_gaussian exactly when reg_gaussian > 0, and these widths add up to
\* the total the generator and the discriminator's latent sub-network were
\* constructed with.
C7_EncoderOutputLayout ==
    zc.src = "encoder" =>
        /\ Len(zc.z) = cfg.latent_dim
        /\ Len(zc.c.categorical) = Len(cfg.reg_categorical)
        /\ \A i \in 1..Len(cfg.reg_categorical) :
              Len(zc.c.categorical[i]) = cfg.reg_categorical[i]
        /\ ("gaussian" \in DOMAIN zc.c) <=> (cfg.reg_gaussian > 0)
        /\ ("gaussian" \in DOMAIN zc.c) => Len(zc.c.gaussian) = cfg.reg_gaussian
        /\ Len(zc.z) + sum([i \in 1..Len(zc.c.categorical) |-> Len(zc.c.categorical[i])]) + cfg.reg_gaussian = net.latent_dim
        /\ net.generator.latent_dim = net.latent_dim
        /\ net.discriminator.z_discriminator.channels = <<net.latent_dim>>

C7_Witness ==
    /\ zc.src = "encoder"
    /\ cfg.reg_categorical = <<1, 2>>
    /\ "gaussian" \in DOMAIN zc.c
    /\ Len(zc.c.categorical[2]) = 2

\* two evaluations on the same input with the same weights
TwoRuns == Len(enc_run) = 2 /\ enc_run[1].x = enc_run[2].x /\ enc_run[1].w = enc_run[2].w

C9_RepresentationWidths ==
    pc = "built" =>
        /\ net.regulariser.hidden_dim = TotalOf(cfg) * 2
        /\ net.regulariser.q_input.out_dim = TotalOf(cfg) * 2
        /\ (d_res.done /\ d_res.raised = "none") =>
              /\ d_res.out[2] = net.regulariser.hidden_dim
              /\ d_res.zx_depth = TotalOf(cfg) * 4
              /\ d_res.zx_depth = d_res.zx_in

C9_Witness ==
    /\ d_res.done
    /\ d_res.raised = "none"
    /\ zc.src = "encoder"
    /\ sum(cfg.reg_categorical) > 1
    /\ d_res.out[2] > cfg.latent_dim * 2

\* C10: with reg_gaussian == 0 the encoder's code is flattened by the
\* generator and by the discriminator without error, to a vector of width
\* latent_dim + sum(reg_categorical).
C10_NoGaussianAccepted ==
    (zc.src = "encoder" /\ cfg.reg_gaussian = 0) =>
        /\ g_res.done =>
              /\ g_res.raised = "none"
              /\ Len(g_res.flat) = cfg.latent_dim + sum(cfg.reg_categorical)
        /\ d_res.done =>
              /\ d_res.raised = "none"
              /\ Len(d_res.flat) = cfg.latent_dim + sum(cfg.reg_categorical)

====
